---- MODULE Spec2Model ----
(***************************************************************************)
(* Model of backend/server.py: the /analyze-recording pipeline.            *)
(*                                                                         *)
(*   analyze_recording  builds the system message and the user content,    *)
(*                      calls call_gemini_api and maps every failure to    *)
(*                      an HTTPException.                                  *)
(*   call_gemini_api    posts the payload to the primary model, retries    *)
(*                      once on the fallback model after a 429 or a 404,   *)
(*                      and extracts the text of the first part of the     *)
(*                      first candidate.                                   *)
(*                                                                         *)
(* Python strings are sequences of atoms: a literal of the source is one   *)
(* atom, a character of caller or provider text is one atom.  A value of   *)
(* type Optional[T] is a sequence of length at most one: <<>> is None and  *)
(* <<v>> is the value v.                                                   *)
(***************************************************************************)
EXTENDS Integers, Sequences, FiniteSets, TLC

VARIABLES
    env_key,         \* os.environ['GEMINI_API_KEY'], Optional[str]
    request,         \* request[r]: the AnalyzeRecordingRequest of handler r
    pc,              \* pc[r]: position of handler r
    system_message,  \* system_message[r]: local of analyze_recording
    user_content,    \* user_content[r]: local of analyze_recording
    payload,         \* payload[r]: local of call_gemini_api, Optional
    calls,           \* calls[r]: the outbound posts of handler r, in order
    replies,         \* replies[r]: what came back for each post, in order
    response,        \* response[r]: local of call_gemini_api, Optional
    logs,            \* logs[r]: the records handler r wrote to logger
    api_result,      \* api_result[r]: how call_gemini_api ended, Optional
    result           \* result[r]: how analyze_recording ended, Optional

vars == <<env_key, request, pc, system_message, user_content, payload,
          calls, replies, response, logs, api_result, result>>

----------------------------------------------------------------------------
(* Python values *)

None == <<>>
Some(v) == <<v>>
IsNone(o) == o = <<>>

\* bool(o) of an Optional[str]: None and '' are falsy
Truthy(o) == o # <<>> /\ o[1] # <<>>

\* variant of OrDefault: the value is formatted as it is
OrDefault_asIs(o, default) == IF IsNone(o) THEN <<"None">> ELSE o[1]

\* o or default, for an Optional[str]
OrDefault(o, default) == IF Truthy(o) THEN o[1] ELSE default

\* variant of Prefix: s[:n-1]
Prefix_short(s, n) == SubSeq(s, 1, IF Len(s) < n - 1 THEN Len(s) ELSE n - 1)

\* s[:n]
Prefix(s, n) == SubSeq(s, 1, IF Len(s) < n THEN Len(s) ELSE n)

\* variant of Suffix: l[:n], the oldest n instead of the latest n
Suffix_oldest(l, n) == SubSeq(l, 1, IF Len(l) < n THEN Len(l) ELSE n)

\* l[-n:]
Suffix(l, n) == SubSeq(l, IF Len(l) > n THEN Len(l) - n + 1 ELSE 1, Len(l))

\* f"{o}" of an Optional[str]
Format(o) == IF IsNone(o) THEN <<"None">> ELSE o[1]

----------------------------------------------------------------------------
(* Prompt assembly, analyze_recording lines 196-232 *)

ATLAS_SYSTEM_PROMPT == <<"ATLAS_SYSTEM_PROMPT">>

SnippetLimit == 500
ContentLimit == 200
HistoryWindow == 4

\* lines 197-204; "*" stands for the bullet glyph U+2022 of the source
PatientContext(req) ==
    IF IsNone(req.patientInfo) THEN <<>>
    ELSE LET p == req.patientInfo[1] IN
         <<"\nPatient Information:\n* Patient ID: ">> \o OrDefault(p.patientId, <<"N/A">>)
         \o <<"\n* Name: ">> \o OrDefault(p.name, <<"Unknown">>)
         \o <<"\n* Species: ">> \o OrDefault(p.species, <<"Unknown">>)
         \o <<"\n">>

SystemMessage(req) == ATLAS_SYSTEM_PROMPT \o PatientContext(req)

ContextSnippet(req) ==
    IF Truthy(req.transcription)
    THEN <<"[Context from recording: ">>
         \o Prefix(req.transcription[1], SnippetLimit)
         \o (IF Len(req.transcription[1]) > SnippetLimit THEN <<"...">> ELSE <<>>)
         \o <<"]\n\n">>
    ELSE <<>>

UserContent(req) ==
    IF ~Truthy(req.followUpQuestion)
    THEN <<"Please analyze this veterinary case recording and provide a case summary only:\n\nRecording Transcription:\n">>
         \o OrDefault(req.transcription, <<"No transcription available">>)
         \o <<"\n\nProvide a helpful case summary based on the recording. Do not include differential diagnoses, treatment plans, or procedures - only summarize the key findings.">>
    ELSE ContextSnippet(req) \o req.followUpQuestion[1]

RoleLabel(msg) == IF msg.role = "user" THEN <<"User">> ELSE <<"Atlas">>

\* variant of RenderTurn: the marker is added from the limit on
RenderTurn_fromLimit(msg) ==
    RoleLabel(msg) \o <<": ">> \o Prefix(msg.content, ContentLimit)
    \o (IF Len(msg.content) >= ContentLimit THEN <<"...">> ELSE <<>>)
    \o <<"\n">>

\* lines 230-231
RenderTurn(msg) ==
    RoleLabel(msg) \o <<": ">> \o Prefix(msg.content, ContentLimit)
    \o (IF Len(msg.content) > ContentLimit THEN <<"...">> ELSE <<>>)
    \o <<"\n">>

RECURSIVE RenderTurns(_)
RenderTurns(msgs) ==
    IF msgs = <<>> THEN <<>>
    ELSE RenderTurn(Head(msgs)) \o RenderTurns(Tail(msgs))

HistoryContext(req) ==
    <<"\n\nPrevious conversation:\n">>
    \o RenderTurns(Suffix(req.previousMessages[1], HistoryWindow))

\* variant of WithHistory: only None counts as no history
WithHistory_unlessNone(req, content) ==
    IF ~IsNone(req.previousMessages)
    THEN HistoryContext(req) \o <<"\n\nCurrent question:\n">> \o content
    ELSE content

\* lines 227-232
WithHistory(req, content) ==
    IF ~IsNone(req.previousMessages) /\ Len(req.previousMessages[1]) > 0
    THEN HistoryContext(req) \o <<"\n\nCurrent question:\n">> \o content
    ELSE content

----------------------------------------------------------------------------
(* The provider's answers.  A response body is the raw text the provider   *)
(* sent; Json is what response.json() makes of it.  A JSON value is a      *)
(* tagged record: null, a string, an array (a sequence) or an object (a    *)
(* function from keys).                                                    *)

JNull == [t |-> "null"]
JStr(s) == [t |-> "str", v |-> s]
JArr(a) == [t |-> "arr", v |-> a]
JObj(o) == [t |-> "obj", v |-> o]

JPart(text) == JObj([text |-> text])
JCandidate(parts) == JObj([content |-> JObj([parts |-> parts])])
JCandidates(cs) == JObj([candidates |-> cs])

\* bodies that are not JSON: response.json() raises json.JSONDecodeError
Undecodable == {"upstream connect error"}

\* bodies the provider sends with an error status
ErrorBodies == {"{\"error\": {\"message\": \"E\"}}"}

\* bodies the provider sends with status 200
SuccessBodies ==
    { "upstream connect error",
      "null",
      "[]",
      "{}",
      "{\"candidates\": null}",
      "{\"candidates\": []}",
      "{\"candidates\": [null]}",
      "{\"candidates\": [{}]}",
      "{\"candidates\": [{\"content\": null}]}",
      "{\"candidates\": [{\"content\": {}}]}",
      "{\"candidates\": [{\"content\": {\"parts\": null}}]}",
      "{\"candidates\": [{\"content\": {\"parts\": []}}]}",
      "{\"candidates\": [{\"content\": {\"parts\": [{}]}}]}",
      "{\"candidates\": [{\"content\": {\"parts\": [{\"text\": null}]}}]}",
      "{\"candidates\": [{\"content\": {\"parts\": [{\"text\": \"\"}]}}]}",
      "{\"candidates\": [{\"content\": {\"parts\": [{\"text\": \"A\"}]}}]}",
      "{\"candidates\": [{\"content\": {\"parts\": [{\"text\": [\"x\"]}]}}]}",
      "{\"candidates\": [{\"content\": {\"parts\": [{\"text\": \"A\"}, {\"text\": \"B\"}]}}, {\"content\": {\"parts\": [{\"text\": \"C\"}]}}]}",
      "{\"candidates\": [{\"content\": {\"parts\": [{}, {\"text\": \"B\"}]}}, {\"content\": {\"parts\": [{\"text\": \"C\"}]}}]}" }

Bodies == SuccessBodies \cup ErrorBodies

\* response.json() of a decodable body
Json(body) ==
    CASE body = "null" -> JNull
      [] body = "[]" -> JArr(<<>>)
      [] body = "{}" -> JObj(<<>>)
      [] body = "{\"error\": {\"message\": \"E\"}}" ->
            JObj([error |-> JObj([message |-> JStr(<<"E">>)])])
      [] body = "{\"candidates\": null}" -> JCandidates(JNull)
      [] body = "{\"candidates\": []}" -> JCandidates(JArr(<<>>))
      [] body = "{\"candidates\": [null]}" -> JCandidates(JArr(<<JNull>>))
      [] body = "{\"candidates\": [{}]}" -> JCandidates(JArr(<<JObj(<<>>)>>))
      [] body = "{\"candidates\": [{\"content\": null}]}" ->
            JCandidates(JArr(<<JObj([content |-> JNull])>>))
      [] body = "{\"candidates\": [{\"content\": {}}]}" ->
            JCandidates(JArr(<<JObj([content |-> JObj(<<>>)])>>))
      [] body = "{\"candidates\": [{\"content\": {\"parts\": null}}]}" ->
            JCandidates(JArr(<<JCandidate(JNull)>>))
      [] body = "{\"candidates\": [{\"content\": {\"parts\": []}}]}" ->
            JCandidates(JArr(<<JCandidate(JArr(<<>>))>>))
      [] body = "{\"candidates\": [{\"content\": {\"parts\": [{}]}}]}" ->
            JCandidates(JArr(<<JCandidate(JArr(<<JObj(<<>>)>>))>>))
      [] body = "{\"candidates\": [{\"content\": {\"parts\": [{\"text\": null}]}}]}" ->
            JCandidates(JArr(<<JCandidate(JArr(<<JPart(JNull)>>))>>))
      [] body = "{\"candidates\": [{\"content\": {\"parts\": [{\"text\": \"\"}]}}]}" ->
            JCandidates(JArr(<<JCandidate(JArr(<<JPart(JStr(<<>>))>>))>>))
      [] body = "{\"candidates\": [{\"content\": {\"parts\": [{\"text\": \"A\"}]}}]}" ->
            JCandidates(JArr(<<JCandidate(JArr(<<JPart(JStr(<<"A">>))>>))>>))
      [] body = "{\"candidates\": [{\"content\": {\"parts\": [{\"text\": [\"x\"]}]}}]}" ->
            JCandidates(JArr(<<JCandidate(JArr(<<JPart(JArr(<<JStr(<<"x">>)>>))>>))>>))
      [] body = "{\"candidates\": [{\"content\": {\"parts\": [{\"text\": \"A\"}, {\"text\": \"B\"}]}}, {\"content\": {\"parts\": [{\"text\": \"C\"}]}}]}" ->
            JCandidates(JArr(<<JCandidate(JArr(<<JPart(JStr(<<"A">>)), JPart(JStr(<<"B">>))>>)),
                               JCandidate(JArr(<<JPart(JStr(<<"C">>))>>))>>))
      [] body = "{\"candidates\": [{\"content\": {\"parts\": [{}, {\"text\": \"B\"}]}}, {\"content\": {\"parts\": [{\"text\": \"C\"}]}}]}" ->
            JCandidates(JArr(<<JCandidate(JArr(<<JObj(<<>>), JPart(JStr(<<"B">>))>>)),
                               JCandidate(JArr(<<JPart(JStr(<<"C">>))>>))>>))

----------------------------------------------------------------------------
(* Python's operators on a JSON value.  The containers of a body are       *)
(* objects, arrays or null; strings occur in the value of "text" only.     *)

\* key in x: "True", "False" or "TypeError" (None is not iterable)
PyContains(key, x) ==
    CASE x.t = "obj" -> IF key \in DOMAIN x.v THEN "True" ELSE "False"
      [] x.t = "arr" ->
            IF \E i \in DOMAIN x.v : x.v[i].t = "str" /\ x.v[i].v = <<key>>
            THEN "True" ELSE "False"
      [] x.t = "null" -> "TypeError"

\* len(x): the length, or -1 for TypeError (None has no len())
PyLen(x) ==
    CASE x.t = "obj" -> Cardinality(DOMAIN x.v)
      [] x.t = "arr" -> Len(x.v)
      [] x.t = "str" -> Len(x.v)
      [] x.t = "null" -> -1

\* an exception, as raised
Raise(type, msg) ==
    [raised |-> TRUE, type |-> type, status_code |-> 0, msg |-> msg, value |-> JNull]
Return(v) ==
    [raised |-> FALSE, type |-> "", status_code |-> 0, msg |-> <<>>, value |-> v]

\* x[key], evaluated only after key in x was True
PyItem(x, key) ==
    IF x.t = "obj" THEN Return(x.v[key])
    ELSE Raise("TypeError", <<"list indices must be integers or slices, not str">>)

\* variant of PyFirst: x[-1]
PyFirst_last(x) ==
    CASE x.t = "arr" -> Return(x.v[Len(x.v)])
      [] x.t = "obj" -> Raise("KeyError", <<"-1">>)
      [] x.t = "str" -> Return(JStr(<<x.v[Len(x.v)]>>))

\* x[0], evaluated only after len(x) > 0 was True
PyFirst(x) ==
    CASE x.t = "arr" -> Return(x.v[1])
      [] x.t = "obj" -> Raise("KeyError", <<"0">>)
      [] x.t = "str" -> Return(JStr(<<x.v[1]>>))

NotIterable == Raise("TypeError", <<"argument of type 'NoneType' is not iterable">>)
NoLen == Raise("TypeError", <<"object of type 'NoneType' has no len()">>)

\* raise HTTPException(status_code=..., detail=...); str(e) is not used on it
HTTPException(status_code, detail) ==
    [raised |-> TRUE, type |-> "HTTPException", status_code |-> status_code,
     msg |-> detail, value |-> JNull]

NoResponseGenerated == HTTPException(500, <<"No response generated from AI">>)

----------------------------------------------------------------------------
(* Text extraction, call_gemini_api lines 180-187 *)

ExtractFromPart(part) ==
    LET hasText == PyContains("text", part) IN
    IF hasText = "TypeError" THEN NotIterable
    ELSE IF hasText = "False" THEN NoResponseGenerated
    ELSE PyItem(part, "text")

ExtractFromParts(parts) ==
    IF PyLen(parts) < 0 THEN NoLen
    ELSE IF PyLen(parts) = 0 THEN NoResponseGenerated
    ELSE LET first == PyFirst(parts) IN
         IF first.raised THEN first ELSE ExtractFromPart(first.value)

ExtractFromCandidate(candidate) ==
    LET hasContent == PyContains("content", candidate) IN
    IF hasContent = "TypeError" THEN NotIterable
    ELSE IF hasContent = "False" THEN NoResponseGenerated
    ELSE LET content == PyItem(candidate, "content") IN
         IF content.raised THEN content
         ELSE LET hasParts == PyContains("parts", content.value) IN
              IF hasParts = "TypeError" THEN NotIterable
              ELSE IF hasParts = "False" THEN NoResponseGenerated
              ELSE LET parts == PyItem(content.value, "parts") IN
                   IF parts.raised THEN parts ELSE ExtractFromParts(parts.value)

ExtractText(data) ==
    LET hasCandidates == PyContains("candidates", data) IN
    IF hasCandidates = "TypeError" THEN NotIterable
    ELSE IF hasCandidates = "False" THEN NoResponseGenerated
    ELSE LET candidates == PyItem(data, "candidates") IN
         IF candidates.raised THEN candidates
         ELSE IF PyLen(candidates.value) < 0 THEN NoLen
         ELSE IF PyLen(candidates.value) = 0 THEN NoResponseGenerated
         ELSE LET candidate == PyFirst(candidates.value) IN
              IF candidate.raised THEN candidate
              ELSE ExtractFromCandidate(candidate.value)

\* lines 177-187: data = response.json(), then the extraction
ParseAndExtract(resp) ==
    IF resp.text \in Undecodable
    THEN Raise("JSONDecodeError", <<"Expecting value: line 1 column 1 (char 0)">>)
    ELSE ExtractText(Json(resp.text))

----------------------------------------------------------------------------
(* The outbound request, call_gemini_api lines 142-170 *)

PrimaryModel == "gemini-2.0-flash-lite"
FallbackModel == "gemini-1.5-flash"

\* lines 142 and 169: f"...{api_key}" of what os.getenv returned
Url(model, api_key) ==
    <<"https://generativelanguage.googleapis.com/v1beta/models/", model,
      ":generateContent?key=">> \o Format(api_key)

\* variant of MissingKey: the key check is skipped
MissingKey_never(api_key) == FALSE

\* line 139: if not api_key
MissingKey(api_key) == ~Truthy(api_key)

GenerationConfig ==
    [temperature |-> "0.7", topK |-> "40", topP |-> "0.95", maxOutputTokens |-> "2048"]

Payload(prompt, system_prompt) ==
    [contents |-> <<[role |-> "user",
                     parts |-> <<[text |-> system_prompt \o <<"\n\n">> \o prompt]>>]>>,
     generationConfig |-> GenerationConfig]

\* http_client.post(url, json=payload), as the provider sees it
Post(url, body) == [url |-> url, json |-> body]

\* variant of FallbackPost: the payload is built anew with other settings
FallbackPost_rebuilt(api_key, body) ==
    Post(Url(FallbackModel, api_key),
         [body EXCEPT !.generationConfig = [@ EXCEPT !.temperature = "0.0"]])

\* line 170
FallbackPost(api_key, body) == Post(Url(FallbackModel, api_key), body)

\* variants of IsTransient: one of the two statuses is forgotten
IsTransient_only404(status_code) == status_code = 404
IsTransient_only429(status_code) == status_code = 429

\* line 167: the statuses that lead to the fallback model
IsTransient(status_code) == status_code = 429 \/ status_code = 404

\* variants of PrimaryBranch: every error status is retried; only a fatal
\* status stops the handler from asking the fallback model
PrimaryBranch_retryAnyError(status_code) ==
    IF status_code # 200 THEN "fallback" ELSE "extract"
PrimaryBranch_fallbackUnlessFatal(status_code) ==
    IF status_code = 200 \/ IsTransient(status_code) THEN "fallback" ELSE "raise"

\* lines 162-175: what follows the primary answer
PrimaryBranch(status_code) ==
    IF status_code # 200
    THEN IF IsTransient(status_code) THEN "fallback" ELSE "raise"
    ELSE "extract"

\* lines 172-173: what follows the fallback answer
FallbackBranch(status_code) == IF status_code # 200 THEN "raise" ELSE "extract"

ApiError(status_code) == HTTPException(500, <<"AI API error: ", ToString(status_code)>>)

----------------------------------------------------------------------------
(* The service boundary, analyze_recording lines 237-250 *)

LogRecord(level, message) == [level |-> level, message |-> message]

StartedRecord(req) ==
    LogRecord("INFO", <<"[analyze-recording] Sending request for consult: ">>
                      \o Format(req.consultId))

SucceededRecord(req) ==
    LogRecord("INFO", <<"[analyze-recording] Analysis generated successfully for consult: ">>
                      \o Format(req.consultId))

\* line 164
ProviderErrorRecord(resp) ==
    LogRecord("ERROR", <<"Gemini API error: ", ToString(resp.status_code), " - ", resp.text>>)

\* line 249
ServiceErrorRecord(exc) == LogRecord("ERROR", <<"[analyze-recording] Error: ">> \o exc.msg)

\* variant of TruthyJson: response is not None
TruthyJson_notNone(v) == v.t # "null"

\* bool(response) of what call_gemini_api returned
TruthyJson(v) == v.t # "null" /\ PyLen(v) > 0

\* line 64: analysis is a str field; line 244 validates what it is given
Validates(v) == v.t = "str"

\* what AnalyzeRecordingResponse(analysis=...) raises for another value
ValidationError ==
    Raise("ValidationError", <<"1 validation error for AnalyzeRecordingResponse">>)

\* lines 248-250
WrapException(exc) ==
    HTTPException(500, <<"An error occurred processing your request: ">> \o exc.msg)

\* variant of ServiceOutcome: line 248 is missing, other exceptions pass
ServiceOutcome_passThrough(out) ==
    IF out.raised THEN out
    ELSE IF ~TruthyJson(out.value) THEN HTTPException(500, <<"No analysis generated">>)
         ELSE IF ~Validates(out.value) THEN ValidationError
         ELSE Return(out.value)

\* lines 239-250: what analyze_recording makes of the way call_gemini_api ended
ServiceOutcome(out) ==
    IF out.raised
    THEN IF out.type = "HTTPException" THEN out ELSE WrapException(out)
    ELSE IF ~TruthyJson(out.value) THEN HTTPException(500, <<"No analysis generated">>)
         ELSE IF ~Validates(out.value) THEN WrapException(ValidationError)
         ELSE Return(out.value)

\* the records lines 239-250 write
ServiceRecords(req, out) ==
    IF out.raised
    THEN IF out.type = "HTTPException" THEN <<>> ELSE <<ServiceErrorRecord(out)>>
    ELSE IF ~TruthyJson(out.value) THEN <<>>
         ELSE IF ~Validates(out.value)
              THEN <<SucceededRecord(req), ServiceErrorRecord(ValidationError)>>
              ELSE <<SucceededRecord(req)>>

----------------------------------------------------------------------------
(* The environment: callers, configuration and the provider *)

Reqs == {"r1", "r2"}

PatientRex == [patientId |-> None, name |-> Some(<<"R", "e", "x">>), species |-> Some(<<"Canine">>)]

Turn(role, content) == [role |-> role, content |-> content]

Request(transcription, patientInfo, consultId, followUpQuestion, previousMessages) ==
    [transcription |-> transcription, patientInfo |-> patientInfo, consultId |-> consultId,
     followUpQuestion |-> followUpQuestion, previousMessages |-> previousMessages]

\* the requests of the pipeline specification
Requests ==
    { Request(None, None, None, None, None),
      Request(Some(<<"t1", "t2">>), Some(PatientRex), Some(<<"consult-1">>), None, None),
      Request(Some(<<"t1", "t2">>), None, Some(<<"consult-2">>), Some(<<"q1">>),
              Some(<<Turn("user", <<"h1">>), Turn("assistant", <<"h2">>)>>)) }

\* os.getenv('GEMINI_API_KEY'): unset, empty or set
EnvKeys == {None, Some(<<>>), Some(<<"KEY">>)}

Statuses == {200, 400, 404, 429, 503}

Response(status_code, text) == [status_code |-> status_code, text |-> text]

ProviderResponses ==
    {Response(200, b) : b \in SuccessBodies}
    \cup {Response(s, b) : s \in Statuses \ {200}, b \in ErrorBodies}

\* what http_client.post raises when no response arrives: the 60 s timeout
\* of line 159, or a connection failure
TransportErrors ==
    { Raise("ReadTimeout", <<>>),
      Raise("ConnectError", <<"All connection attempts failed">>) }

----------------------------------------------------------------------------
(* The handlers *)

Init ==
    /\ env_key \in EnvKeys
    /\ request \in [Reqs -> Requests]
    /\ pc = [r \in Reqs |-> "build"]
    /\ system_message = [r \in Reqs |-> <<>>]
    /\ user_content = [r \in Reqs |-> <<>>]
    /\ payload = [r \in Reqs |-> None]
    /\ calls = [r \in Reqs |-> <<>>]
    /\ replies = [r \in Reqs |-> <<>>]
    /\ response = [r \in Reqs |-> None]
    /\ logs = [r \in Reqs |-> <<>>]
    /\ api_result = [r \in Reqs |-> None]
    /\ result = [r \in Reqs |-> None]

\* variant of Conclude: after a failure the handler starts the call again
Conclude_resume(r, out, written) ==
    /\ api_result' = [api_result EXCEPT ![r] = Some(out)]
    /\ result' = [result EXCEPT ![r] = Some(ServiceOutcome(out))]
    /\ logs' = [logs EXCEPT ![r] = @ \o written \o ServiceRecords(request[r], out)]
    /\ pc' = [pc EXCEPT ![r] = IF out.raised THEN "invoke" ELSE "done"]

\* call_gemini_api ends with out (a return or a raise) and analyze_recording
\* ends with it, lines 237-250
Conclude(r, out, written) ==
    /\ api_result' = [api_result EXCEPT ![r] = Some(out)]
    /\ result' = [result EXCEPT ![r] = Some(ServiceOutcome(out))]
    /\ logs' = [logs EXCEPT ![r] = @ \o written \o ServiceRecords(request[r], out)]
    /\ pc' = [pc EXCEPT ![r] = "done"]

\* variant of Build: the system message is kept in one module-level variable
Build_sharedPrompt(r) ==
    /\ pc[r] = "build"
    /\ system_message' = [q \in Reqs |-> SystemMessage(request[r])]
    /\ user_content' = [user_content EXCEPT ![r] = WithHistory(request[r], UserContent(request[r]))]
    /\ logs' = [logs EXCEPT ![r] = Append(@, StartedRecord(request[r]))]
    /\ pc' = [pc EXCEPT ![r] = "invoke"]
    /\ UNCHANGED <<env_key, request, payload, calls, replies, response, api_result, result>>

\* analyze_recording lines 195-234: the prompts and the first log record
Build(r) ==
    /\ pc[r] = "build"
    /\ system_message' = [system_message EXCEPT ![r] = SystemMessage(request[r])]
    /\ user_content' = [user_content EXCEPT ![r] = WithHistory(request[r], UserContent(request[r]))]
    /\ logs' = [logs EXCEPT ![r] = Append(@, StartedRecord(request[r]))]
    /\ pc' = [pc EXCEPT ![r] = "invoke"]
    /\ UNCHANGED <<env_key, request, payload, calls, replies, response, api_result, result>>

\* call_gemini_api lines 138-160: the key check, the payload and the first post
Invoke(r) ==
    /\ pc[r] = "invoke"
    /\ IF MissingKey(env_key)
       THEN /\ Conclude(r, HTTPException(500, <<"Gemini API key not configured">>), <<>>)
            /\ UNCHANGED <<payload, calls>>
       ELSE /\ payload' = [payload EXCEPT ![r] = Some(Payload(user_content[r], system_message[r]))]
            /\ calls' = [calls EXCEPT ![r] =
                            Append(@, Post(Url(PrimaryModel, env_key), payload'[r][1]))]
            /\ pc' = [pc EXCEPT ![r] = "await_primary"]
            /\ UNCHANGED <<logs, api_result, result>>
    /\ UNCHANGED <<env_key, request, system_message, user_content, replies, response>>

\* lines 160-187: the primary model answered
PrimaryReturns(r) ==
    /\ pc[r] = "await_primary"
    /\ \E resp \in ProviderResponses :
        /\ response' = [response EXCEPT ![r] = Some(resp)]
        /\ replies' = [replies EXCEPT ![r] = Append(@, resp)]
        /\ CASE PrimaryBranch(resp.status_code) = "fallback" ->
                    /\ logs' = [logs EXCEPT ![r] = Append(@, ProviderErrorRecord(resp))]
                    /\ calls' = [calls EXCEPT ![r] = Append(@, FallbackPost(env_key, payload[r][1]))]
                    /\ pc' = [pc EXCEPT ![r] = "await_fallback"]
                    /\ UNCHANGED <<api_result, result>>
             [] PrimaryBranch(resp.status_code) = "raise" ->
                    /\ Conclude(r, ApiError(resp.status_code), <<ProviderErrorRecord(resp)>>)
                    /\ UNCHANGED calls
             [] PrimaryBranch(resp.status_code) = "extract" ->
                    /\ Conclude(r, ParseAndExtract(resp), <<>>)
                    /\ UNCHANGED calls
    /\ UNCHANGED <<env_key, request, system_message, user_content, payload>>

\* line 160: the primary post raised instead of answering
PrimaryFails(r) ==
    /\ pc[r] = "await_primary"
    /\ \E exc \in TransportErrors :
        /\ replies' = [replies EXCEPT ![r] = Append(@, exc)]
        /\ Conclude(r, exc, <<>>)
    /\ UNCHANGED <<env_key, request, system_message, user_content, payload, calls, response>>

\* lines 170-187: the fallback model answered
FallbackReturns(r) ==
    /\ pc[r] = "await_fallback"
    /\ \E resp \in ProviderResponses :
        /\ response' = [response EXCEPT ![r] = Some(resp)]
        /\ replies' = [replies EXCEPT ![r] = Append(@, resp)]
        /\ IF FallbackBranch(resp.status_code) = "raise"
           THEN Conclude(r, ApiError(resp.status_code), <<>>)
           ELSE Conclude(r, ParseAndExtract(resp), <<>>)
    /\ UNCHANGED <<env_key, request, system_message, user_content, payload, calls>>

\* line 170: the fallback post raised instead of answering
FallbackFails(r) ==
    /\ pc[r] = "await_fallback"
    /\ \E exc \in TransportErrors :
        /\ replies' = [replies EXCEPT ![r] = Append(@, exc)]
        /\ Conclude(r, exc, <<>>)
    /\ UNCHANGED <<env_key, request, system_message, user_content, payload, calls, response>>

Next ==
    \E r \in Reqs :
        \/ Build(r)
        \/ Invoke(r)
        \/ PrimaryReturns(r)
        \/ PrimaryFails(r)
        \/ FallbackReturns(r)
        \/ FallbackFails(r)

Spec == Init /\ [][Next]_vars

----------------------------------------------------------------------------
(* Vocabulary of the properties *)

Done(r) == pc[r] = "done"

\* a reply is a response of the provider, or the exception the post raised
IsResponse(reply) == "text" \in DOMAIN reply
HasStatus(reply, statuses) == IsResponse(reply) /\ reply.status_code \in statuses
IsSuccess(reply) == HasStatus(reply, {200})
IsTimeout(reply) == ~IsResponse(reply) /\ reply.type = "ReadTimeout"

\* the model a post was sent to
Target(post) == post.url[2]

\* the n-th reply of r has arrived
Replied(r, n) == Len(replies[r]) >= n

Failed(r) ==
    /\ Done(r)
    /\ ~IsNone(api_result[r]) /\ api_result[r][1].raised
    /\ ~IsNone(result[r]) /\ result[r][1].raised

\* the body decodes and the path candidates[0].content.parts[0].text exists
HasTextPath(body) ==
    /\ body \notin Undecodable
    /\ LET d == Json(body) IN
       /\ d.t = "obj" /\ "candidates" \in DOMAIN d.v
       /\ d.v["candidates"].t = "arr" /\ Len(d.v["candidates"].v) > 0
       /\ LET c == d.v["candidates"].v[1] IN
          /\ c.t = "obj" /\ "content" \in DOMAIN c.v
          /\ c.v["content"].t = "obj" /\ "parts" \in DOMAIN c.v["content"].v
          /\ LET ps == c.v["content"].v["parts"] IN
             /\ ps.t = "arr" /\ Len(ps.v) > 0
             /\ ps.v[1].t = "obj" /\ "text" \in DOMAIN ps.v[1].v

\* the value at that path
TextAtPath(body) ==
    Json(body).v["candidates"].v[1].v["content"].v["parts"].v[1].v["text"]

\* the path exists and holds a string
HasText(body) == HasTextPath(body) /\ TextAtPath(body).t = "str"

----------------------------------------------------------------------------
(* C1  Retry law: once the primary model has answered 429, there are       *)
(* exactly two posts, the first to the primary and the second to the       *)
(* fallback model; and when the fallback then answers 200 with a text at   *)
(* candidates[0].content.parts[0], call_gemini_api returns that text.      *)
C1_RetryLaw ==
    \A r \in Reqs :
        (Replied(r, 1) /\ HasStatus(replies[r][1], {429})) =>
            /\ Len(calls[r]) = 2
            /\ Target(calls[r][1]) = PrimaryModel
            /\ Target(calls[r][2]) = FallbackModel
            /\ (Replied(r, 2) /\ IsSuccess(replies[r][2]) /\ HasText(replies[r][2].text)) =>
                    /\ Done(r)
                    /\ api_result[r] = Some(Return(TextAtPath(replies[r][2].text)))

C1_Witness ==
    \E r \in Reqs :
        /\ Done(r) /\ Replied(r, 2)
        /\ HasStatus(replies[r][1], {429})
        /\ IsSuccess(replies[r][2]) /\ HasText(replies[r][2].text)
        /\ TextAtPath(replies[r][2].text) = JStr(<<"A">>)

(* C2  Fatal law: once the primary model has answered with a status that   *)
(* is neither 200 nor 429 nor 404, the handler is over with a failure,     *)
(* after exactly one post, which went to the primary model.                *)
C2_FatalLaw ==
    \A r \in Reqs :
        (Replied(r, 1) /\ HasStatus(replies[r][1], Statuses \ {200, 429, 404})) =>
            /\ Failed(r)
            /\ Len(calls[r]) = 1
            /\ Target(calls[r][1]) = PrimaryModel

C2_Witness ==
    \E r \in Reqs : Done(r) /\ Replied(r, 1) /\ HasStatus(replies[r][1], {400})

(* C3  Single-retry bound: a handler posts at most twice, it posts a       *)
(* second time only after the first post ended without success, and it     *)
(* posts nothing after a post was answered with 200.                       *)
C3_SingleRetry ==
    \A r \in Reqs :
        /\ Len(calls[r]) <= 2
        /\ Len(calls[r]) = 2 => (Replied(r, 1) /\ ~IsSuccess(replies[r][1]))
        /\ \A i \in DOMAIN replies[r] : IsSuccess(replies[r][i]) => Len(calls[r]) = i

C3_Witness ==
    \E r, q \in Reqs :
        /\ Len(calls[r]) = 2 /\ Replied(r, 2) /\ IsSuccess(replies[r][2])
        /\ Len(calls[q]) = 1 /\ Replied(q, 1) /\ IsSuccess(replies[q][1])

(* C4  Timeout as failed attempt: when the primary post times out, the     *)
(* fallback model is posted to, once, with the same payload.               *)
C4_TimeoutFallsBack ==
    \A r \in Reqs :
        (Replied(r, 1) /\ IsTimeout(replies[r][1])) =>
            /\ Len(calls[r]) = 2
            /\ Target(calls[r][2]) = FallbackModel
            /\ calls[r][2].json = calls[r][1].json

(* C5  Transient-then-fatal: once the primary model has answered 429 or    *)
(* 404, exactly one post has gone to the fallback model; when the fallback *)
(* answers with a status other than 200, the handler is over with a        *)
(* failure and there is no third post.                                     *)
C5_TransientThenFatal ==
    \A r \in Reqs :
        (Replied(r, 1) /\ HasStatus(replies[r][1], {429, 404})) =>
            /\ Cardinality({i \in DOMAIN calls[r] : Target(calls[r][i]) = FallbackModel}) = 1
            /\ Target(calls[r][2]) = FallbackModel
            /\ (Replied(r, 2) /\ HasStatus(replies[r][2], Statuses \ {200})) =>
                    (Failed(r) /\ Len(calls[r]) = 2)

C5_Witness ==
    \E r \in Reqs :
        /\ Done(r) /\ Replied(r, 2)
        /\ HasStatus(replies[r][1], {404})
        /\ HasStatus(replies[r][2], {429})

(* C6  Payload frame: the two posts of one handler carry the same body,    *)
(* which is the single user-role part holding system prompt, blank line    *)
(* and user content, with the fixed generation configuration; their urls   *)
(* differ in the model and in nothing else.                                *)
C6_PayloadFrame ==
    \A r \in Reqs :
        Len(calls[r]) = 2 =>
            /\ calls[r][2].json = calls[r][1].json
            /\ calls[r][1].json.generationConfig = GenerationConfig
            /\ Len(calls[r][1].json.contents) = 1
            /\ calls[r][1].json.contents[1].role = "user"
            /\ calls[r][1].json.contents[1].parts =
                    <<[text |-> system_message[r] \o <<"\n\n">> \o user_content[r]]>>
            /\ Target(calls[r][1]) # Target(calls[r][2])
            /\ calls[r][2].url = [calls[r][1].url EXCEPT ![2] = FallbackModel]

C6_Witness ==
    \E r \in Reqs :
        /\ Len(calls[r]) = 2 /\ Replied(r, 2)
        /\ ~IsNone(request[r].previousMessages)

(* C7  Configuration error: when GEMINI_API_KEY is not in the environment, *)
(* no handler ever posts, and a handler that is over has failed with the   *)
(* cause "Gemini API key not configured".                                  *)
C7_MissingKeyFatal ==
    \A r \in Reqs :
        IsNone(env_key) =>
            /\ calls[r] = <<>>
            /\ replies[r] = <<>>
            /\ pc[r] \in {"build", "invoke", "done"}
            /\ Done(r) => (Failed(r) /\ result[r][1].msg = <<"Gemini API key not configured">>)

C7_Witness == IsNone(env_key) /\ \E r \in Reqs : Done(r) /\ Failed(r)

\* the last reply of r is a 200 whose body decodes but has no text path
EmptyResponse(r) ==
    /\ Done(r) /\ replies[r] # <<>>
    /\ LET last == replies[r][Len(replies[r])] IN
       IsSuccess(last) /\ last.text \notin Undecodable /\ ~HasTextPath(last.text)

\* the last reply of r is an error status, or the post raised
ProviderDown(r) ==
    /\ Done(r) /\ replies[r] # <<>>
    /\ ~IsSuccess(replies[r][Len(replies[r])])

(* C8  Empty response: when the last answer is a 200 whose body has no     *)
(* text at candidates[0].content.parts[0], the handler ends with the       *)
(* HTTPException "No response generated from AI", which differs from       *)
(* what a handler ends with after an error status or a transport failure.  *)
C8_EmptyResponseDistinct ==
    \A r \in Reqs :
        EmptyResponse(r) =>
            /\ api_result[r] = Some(NoResponseGenerated)
            /\ result[r] = Some(NoResponseGenerated)
            /\ \A q \in Reqs : ProviderDown(q) => result[q] # result[r]

\* the ways a handler fails
Failure(r) ==
    \/ ~Truthy(env_key)
    \/ replies[r] # <<>> /\
        LET last == replies[r][Len(replies[r])] IN
        \/ ~IsSuccess(last)
        \/ ~HasText(last.text)
        \/ TextAtPath(last.text).v = <<>>

(* C9  Failure normalization: a handler that is over has a result; a       *)
(* failure of any kind (no key, error status, failed fallback, no text,    *)
(* transport exception, undecodable body) is an HTTPException with status  *)
(* 500 and a non-empty detail, and a result that is not an exception comes *)
(* from a 200 answer with a text.                                          *)
C9_FailureNormalization ==
    \A r \in Reqs :
        Done(r) =>
            /\ ~IsNone(result[r]) /\ ~IsNone(api_result[r])
            /\ result[r][1].raised =>
                    /\ result[r][1].type = "HTTPException"
                    /\ result[r][1].status_code = 500
                    /\ result[r][1].msg # <<>> /\ result[r][1].msg[1] # ""
            /\ api_result[r][1].raised => result[r][1].raised
            /\ Failure(r) <=> result[r][1].raised

C9_Witness ==
    \E r, q \in Reqs :
        /\ Done(r) /\ api_result[r][1].raised /\ api_result[r][1].type = "TypeError"
        /\ Done(q) /\ api_result[q][1].raised /\ api_result[q][1].type = "ReadTimeout"
        /\ result[r][1].type = "HTTPException" /\ result[q][1].type = "HTTPException"

\* the atoms of a text
Atoms(text) == {text[i] : i \in DOMAIN text}

\* the texts of the caller: transcription, question and history
RequestContent(req) ==
    (IF IsNone(req.transcription) THEN {} ELSE Atoms(req.transcription[1]))
    \cup (IF IsNone(req.followUpQuestion) THEN {} ELSE Atoms(req.followUpQuestion[1]))
    \cup (IF IsNone(req.previousMessages) THEN {}
          ELSE UNION {Atoms(req.previousMessages[1][i].content) :
                        i \in DOMAIN req.previousMessages[1]})

\* the bodies the provider answered with
ResponseContent(r) ==
    {replies[r][i].text : i \in {j \in DOMAIN replies[r] : IsResponse(replies[r][j])}}

(* C10  Logs carry no content: no record a handler writes holds text of    *)
(* the request (transcription, question, history) or the body of a         *)
(* provider response.                                                      *)
C10_LogsWithoutContent ==
    \A r \in Reqs : \A i \in DOMAIN logs[r] :
        Atoms(logs[r][i].message) \cap (RequestContent(request[r]) \cup ResponseContent(r)) = {}

----------------------------------------------------------------------------
(* The state machine of one request *)

Phase(r) ==
    CASE pc[r] = "build" -> "Building"
      [] pc[r] \in {"invoke", "await_primary", "await_fallback"} -> "Invoking"
      [] pc[r] = "done" /\ ~IsNone(result[r]) /\ result[r][1].raised -> "Failed"
      [] pc[r] = "done" /\ ~IsNone(result[r]) /\ ~result[r][1].raised -> "Succeeded"
      [] OTHER -> "Unknown"

\* everything handler r owns
Local(r) ==
    <<request[r], pc[r], system_message[r], user_content[r], payload[r], calls[r],
      replies[r], response[r], logs[r], api_result[r], result[r]>>

PhaseOrder ==
    { <<"Building", "Invoking">>, <<"Invoking", "Succeeded">>, <<"Invoking", "Failed">> }

\* the text of the single part of a post
PostedText(post) == post.json.contents[1].parts[1].text

C11_Phases ==
    \A r \in Reqs :
        /\ Phase(r) # "Unknown"
        /\ Phase(r) = "Building" => (calls[r] = <<>> /\ IsNone(api_result[r]))
        /\ IsNone(result[r]) <=> Phase(r) \in {"Building", "Invoking"}
        /\ (~IsNone(api_result[r]) /\ api_result[r][1].raised) => Phase(r) = "Failed"
        /\ \A i \in DOMAIN calls[r] :
                PostedText(calls[r][i]) =
                    SystemMessage(request[r]) \o <<"\n\n">>
                    \o WithHistory(request[r], UserContent(request[r]))

C11_Step ==
    \A r \in Reqs :
        /\ Phase(r)' # Phase(r) => <<Phase(r), Phase(r)'>> \in PhaseOrder
        /\ Phase(r) \in {"Succeeded", "Failed"} => Local(r)' = Local(r)

(* C11  Per-request state machine: a handler goes Building, Invoking, then *)
(* Succeeded or Failed, in that order; it posts nothing while Building,    *)
(* and what it posts holds the finished system prompt and user content;    *)
(* a failure of call_gemini_api makes it Failed at once; Succeeded and     *)
(* Failed are final: nothing the handler owns changes afterwards.          *)
C11_StateMachine == [](C11_Phases) /\ [][C11_Step]_vars

C11_Witness ==
    \E r, q \in Reqs :
        /\ Phase(r) = "Succeeded" /\ Len(calls[r]) = 1
        /\ Phase(q) = "Failed" /\ Len(calls[q]) = 2
        /\ ~IsNone(request[q].previousMessages)

----------------------------------------------------------------------------
(* Concurrent requests *)

\* the first n elements of both sequences agree, n the shorter length
AgreeOnCommon(a, b) ==
    \A i \in (DOMAIN a) \cap (DOMAIN b) : a[i] = b[i]

\* two handlers given the same request post the same, and given the same
\* replies as well they end the same
C12_SameInSameOut ==
    \A r, q \in Reqs :
        request[r] = request[q] =>
            /\ AgreeOnCommon(calls[r], calls[q])
            /\ (pc[r] # "build" /\ pc[q] # "build") =>
                    /\ system_message[r] = system_message[q]
                    /\ user_content[r] = user_content[q]
            /\ (Done(r) /\ Done(q) /\ replies[r] = replies[q]) =>
                    /\ api_result[r] = api_result[q]
                    /\ result[r] = result[q]
                    /\ logs[r] = logs[q]

\* a step that is not a step of handler r changes nothing handler r owns,
\* and no step changes the key or a request
C12_Frame ==
    /\ env_key' = env_key
    /\ request' = request
    /\ \A r \in Reqs : pc[r]' = pc[r] => Local(r)' = Local(r)

(* C12  Request independence: under every interleaving of two handlers, a  *)
(* step of one handler changes nothing the other owns, two handlers with   *)
(* the same request post identical payloads, and with the same replies     *)
(* they return the same outcome.                                           *)
C12_Independence == [](C12_SameInSameOut) /\ [][C12_Frame]_vars

C12_Witness ==
    \E r, q \in Reqs :
        /\ r # q /\ request[r] = request[q]
        /\ ~IsNone(request[r].previousMessages)
        /\ Done(r) /\ pc[q] = "await_fallback"
        /\ Len(calls[r]) = 2 /\ calls[r] = calls[q]

----------------------------------------------------------------------------
(* Prompt assembly on its own: the requests that reach the limits of       *)
(* lines 222, 229 and 231, and the step that builds the prompts.           *)

\* the longest history, and how far a text goes beyond a limit
MaxTurns == 6
MaxExcess == 2

\* a text of n characters, each one telling its position
Chars(n) == [i \in 1..n |-> ToString(i)]

\* the lengths around a limit
Around(limit) == (limit - 1) .. (limit + MaxExcess)

Roles == <<"user", "assistant", "system">>

\* n turns with the contents h1 .. hn, the roles in turn
ShortHistory(n) == [i \in 1..n |-> Turn(Roles[((i - 1) % 3) + 1], <<"h" \o ToString(i)>>)]

\* n turns, the i-th of limit - 2 + i characters
LongHistory(n) == [i \in 1..n |-> Turn(Roles[((i - 1) % 3) + 1], Chars(ContentLimit - 2 + i))]

Transcriptions ==
    {None, Some(<<>>), Some(<<"t1", "t2">>)} \cup {Some(Chars(n)) : n \in Around(SnippetLimit)}

Questions == {None, Some(<<>>), Some(<<"q1", "q2">>)}

Histories ==
    {None, Some(<<>>)}
    \cup {Some(ShortHistory(n)) : n \in 1..MaxTurns}
    \cup {Some(<<Turn(role, Chars(n))>>) : role \in {"user", "assistant"}, n \in Around(ContentLimit)}
    \cup {Some(LongHistory(MaxTurns - 1))}

OptionalNames == {None, Some(<<>>), Some(<<"R", "e", "x">>)}
OptionalSpecies == {None, Some(<<>>), Some(<<"Canine">>)}
OptionalIds == {None, Some(<<>>), Some(<<"P-7">>)}

Patients ==
    {None} \cup {Some([patientId |-> i, name |-> n, species |-> s]) :
                    i \in OptionalIds, n \in OptionalNames, s \in OptionalSpecies}

BuildRequests ==
    {Request(t, p, Some(<<"consult-1">>), q, h) :
        t \in Transcriptions, p \in {None, Some(PatientRex)}, q \in Questions, h \in Histories}
    \cup {Request(Some(<<"t1", "t2">>), p, None, None, None) : p \in Patients}

InitBuild ==
    /\ env_key \in {Some(<<"KEY">>)}
    /\ request \in {[r \in Reqs |-> req] : req \in BuildRequests}
    /\ pc = [r \in Reqs |-> "build"]
    /\ system_message = [r \in Reqs |-> <<>>]
    /\ user_content = [r \in Reqs |-> <<>>]
    /\ payload = [r \in Reqs |-> None]
    /\ calls = [r \in Reqs |-> <<>>]
    /\ replies = [r \in Reqs |-> <<>>]
    /\ response = [r \in Reqs |-> None]
    /\ logs = [r \in Reqs |-> <<>>]
    /\ api_result = [r \in Reqs |-> None]
    /\ result = [r \in Reqs |-> None]

NextBuild == \E r \in Reqs : Build(r)

SpecBuild == InitBuild /\ [][NextBuild]_vars

\* handler r has built its prompts
Built(r) == pc[r] # "build"

\* the turns of the request of r, <<>> when there are none
Turns(r) ==
    IF IsNone(request[r].previousMessages) THEN <<>> ELSE request[r].previousMessages[1]

HistoryHeader == "\n\nPrevious conversation:\n"
HistorySeparator == "\n\nCurrent question:\n"

\* the renderings of the turns i, i+1, ... of msgs, one after the other
RECURSIVE RenderedFrom(_, _)
RenderedFrom(msgs, i) ==
    IF i > Len(msgs) THEN <<>> ELSE RenderTurn(msgs[i]) \o RenderedFrom(msgs, i + 1)

(* C13  History window: with more than 4 turns the user content holds,     *)
(* between header and separator, the renderings of the last 4 turns in     *)
(* their order and of no older turn; with 1 to 4 turns, of all of them.    *)
C13_HistoryWindow ==
    \A r \in Reqs :
        (Built(r) /\ Len(Turns(r)) >= 1) =>
            LET n == Len(Turns(r))
                first == IF n > 4 THEN n - 3 ELSE 1
            IN  user_content[r] =
                    <<HistoryHeader>> \o RenderedFrom(Turns(r), first)
                    \o <<HistorySeparator>> \o UserContent(request[r])

C13_Witness ==
    \E r \in Reqs :
        /\ Built(r) /\ Len(Turns(r)) = 6
        /\ {"h3", "h4", "h5", "h6"} \subseteq {user_content[r][i] : i \in DOMAIN user_content[r]}
        /\ {"h1", "h2"} \cap {user_content[r][i] : i \in DOMAIN user_content[r]} = {}

\* a turn as it has to be rendered: label, content cut at 200 characters
LabelOf(msg) == IF msg.role = "user" THEN "User" ELSE "Atlas"

CutAt(text, limit) ==
    IF Len(text) > limit THEN SubSeq(text, 1, limit) \o <<"...">> ELSE text

ExpectedTurn(msg) == <<LabelOf(msg), ": ">> \o CutAt(msg.content, 200) \o <<"\n">>

RECURSIVE ExpectedTurns(_)
ExpectedTurns(msgs) ==
    IF msgs = <<>> THEN <<>> ELSE ExpectedTurn(Head(msgs)) \o ExpectedTurns(Tail(msgs))

(* C14  Turn truncation: every turn of the window is rendered as its       *)
(* label and its content, the content whole when it has 200 characters or  *)
(* fewer, and cut to its first 200 characters plus "..." when it has more. *)
C14_TurnTruncation ==
    \A r \in Reqs :
        (Built(r) /\ Len(Turns(r)) >= 1) =>
            user_content[r] =
                <<HistoryHeader>> \o ExpectedTurns(Suffix(Turns(r), HistoryWindow))
                \o <<HistorySeparator>> \o UserContent(request[r])

C14_Witness ==
    \E r \in Reqs :
        /\ Built(r) /\ Len(Turns(r)) = 5
        /\ Len(Turns(r)[2].content) = 200 /\ Len(Turns(r)[3].content) = 201
        /\ Len(user_content[r]) > 800

\* text ends with tail
EndsWith(text, tail) ==
    /\ Len(text) >= Len(tail)
    /\ SubSeq(text, Len(text) - Len(tail) + 1, Len(text)) = tail

SnippetOpen == "[Context from recording: "
SnippetClose == "]\n\n"

\* the snippet of a transcription followed by the question
SnippetAndQuestion(transcription, question) ==
    <<SnippetOpen>> \o CutAt(transcription, 500) \o <<SnippetClose>> \o question

(* C15, as stated  Follow-up context snippet: with followUpQuestion and    *)
(* transcription present (not None), the user content ends with the        *)
(* snippet of the transcription, cut at 500 characters, and the question.  *)
C15_SnippetWhenPresent ==
    \A r \in Reqs :
        (Built(r) /\ ~IsNone(request[r].followUpQuestion) /\ ~IsNone(request[r].transcription)) =>
            EndsWith(user_content[r],
                     SnippetAndQuestion(request[r].transcription[1], request[r].followUpQuestion[1]))

(* C15  Follow-up context snippet: with a non-empty followUpQuestion, the  *)
(* user content ends with the question; with a non-empty transcription     *)
(* the question is preceded by the snippet, which holds the transcription  *)
(* whole up to 500 characters and its first 500 characters plus "..."      *)
(* beyond; without one there is no snippet.  An empty followUpQuestion is  *)
(* handled as none: the initial-analysis text with the whole               *)
(* transcription.                                                          *)
C15_SnippetWhenNonEmpty ==
    \A r \in Reqs :
        Built(r) =>
            LET q == request[r].followUpQuestion
                t == request[r].transcription
                own == IF Len(Turns(r)) >= 1
                       THEN SubSeq(user_content[r],
                                   Len(<<HistoryHeader>> \o ExpectedTurns(Suffix(Turns(r), HistoryWindow))) + 2,
                                   Len(user_content[r]))
                       ELSE user_content[r]
            IN  /\ (q # None /\ q[1] # <<>> /\ t # None /\ t[1] # <<>>) =>
                        own = SnippetAndQuestion(t[1], q[1])
                /\ (q # None /\ q[1] # <<>> /\ (t = None \/ t[1] = <<>>)) => own = q[1]
                /\ (q = None \/ q[1] = <<>>) => SnippetOpen \notin {own[i] : i \in DOMAIN own}

C15_Witness ==
    \E r \in Reqs :
        /\ Built(r)
        /\ request[r].followUpQuestion = Some(<<"q1", "q2">>)
        /\ ~IsNone(request[r].transcription) /\ Len(request[r].transcription[1]) = 501
        /\ user_content[r][501] = "500" /\ user_content[r][502] = "..."
        /\ user_content[r][503] = SnippetClose

(* C16  Empty history is a no-op: without previousMessages, or with an     *)
(* empty list, the user content is what lines 210-224 built, with neither  *)
(* the history header nor the separator in it.                             *)
C16_EmptyHistoryNoOp ==
    \A r \in Reqs :
        (Built(r) /\ Turns(r) = <<>>) =>
            /\ user_content[r] = UserContent(request[r])
            /\ {HistoryHeader, HistorySeparator} \cap {user_content[r][i] : i \in DOMAIN user_content[r]} = {}

C16_Witness ==
    \E r \in Reqs :
        /\ Built(r) /\ request[r].previousMessages = Some(<<>>)
        /\ request[r].followUpQuestion = Some(<<"q1", "q2">>)
        /\ request[r].transcription = None
        /\ user_content[r] = <<"q1", "q2">>

\* a patient field as it has to be shown
Shown(field, placeholder) ==
    IF field = None \/ field = Some(<<>>) THEN placeholder ELSE field[1]

(* C17  Patient block: the system message is the fixed prompt alone when   *)
(* patientInfo is absent, and otherwise the prompt and the three lines     *)
(* Patient ID, Name and Species, a missing id shown as N/A and a missing   *)
(* name or species as Unknown.                                             *)
C17_PatientBlock ==
    \A r \in Reqs :
        Built(r) =>
            IF IsNone(request[r].patientInfo)
            THEN system_message[r] = ATLAS_SYSTEM_PROMPT
            ELSE LET p == request[r].patientInfo[1] IN
                 system_message[r] =
                    ATLAS_SYSTEM_PROMPT
                    \o <<"\nPatient Information:\n* Patient ID: ">> \o Shown(p.patientId, <<"N/A">>)
                    \o <<"\n* Name: ">> \o Shown(p.name, <<"Unknown">>)
                    \o <<"\n* Species: ">> \o Shown(p.species, <<"Unknown">>)
                    \o <<"\n">>

C17_Witness ==
    \E r \in Reqs :
        /\ Built(r)
        /\ request[r].patientInfo =
                Some([patientId |-> None, name |-> Some(<<"R", "e", "x">>), species |-> Some(<<"Canine">>)])
        /\ system_message[r] =
                <<"ATLAS_SYSTEM_PROMPT", "\nPatient Information:\n* Patient ID: ", "N/A",
                  "\n* Name: ", "R", "e", "x", "\n* Species: ", "Canine", "\n">>

----------------------------------------------------------------------------
(* The answer of the provider and the end of the request *)

\* the last reply of r is a 200 with this body
Answered(r, body) ==
    /\ Done(r) /\ replies[r] # <<>>
    /\ IsSuccess(replies[r][Len(replies[r])])
    /\ replies[r][Len(replies[r])].text = body

\* the body decodes and candidates[0].content.parts[0] is an object
HasFirstPart(body) ==
    /\ body \notin Undecodable
    /\ LET d == Json(body) IN
       /\ d.t = "obj" /\ "candidates" \in DOMAIN d.v
       /\ d.v["candidates"].t = "arr" /\ Len(d.v["candidates"].v) > 0
       /\ LET c == d.v["candidates"].v[1] IN
          /\ c.t = "obj" /\ "content" \in DOMAIN c.v
          /\ c.v["content"].t = "obj" /\ "parts" \in DOMAIN c.v["content"].v
          /\ LET ps == c.v["content"].v["parts"] IN
             ps.t = "arr" /\ Len(ps.v) > 0 /\ ps.v[1].t = "obj"

FirstPart(body) == Json(body).v["candidates"].v[1].v["content"].v["parts"].v[1]

(* C18  First-candidate extraction: after a 200 whose first candidate has  *)
(* a first part, call_gemini_api returns the text of that part, whatever   *)
(* the other parts and candidates hold, and raises "No response generated  *)
(* from AI" when that part has no text, whatever the others hold.          *)
C18_FirstCandidateOnly ==
    \A r \in Reqs : \A body \in SuccessBodies :
        (Answered(r, body) /\ HasFirstPart(body)) =>
            IF "text" \in DOMAIN FirstPart(body).v
            THEN api_result[r] = Some(Return(FirstPart(body).v["text"]))
            ELSE api_result[r] = Some(NoResponseGenerated)

C18_Witness ==
    \E r, q \in Reqs :
        /\ Answered(r, "{\"candidates\": [{\"content\": {\"parts\": [{\"text\": \"A\"}, {\"text\": \"B\"}]}}, {\"content\": {\"parts\": [{\"text\": \"C\"}]}}]}")
        /\ api_result[r] = Some(Return(JStr(<<"A">>)))
        /\ Answered(q, "{\"candidates\": [{\"content\": {\"parts\": [{}, {\"text\": \"B\"}]}}, {\"content\": {\"parts\": [{\"text\": \"C\"}]}}]}")
        /\ api_result[q] = Some(NoResponseGenerated)

\* the two events of analyze_recording, with the consult id of the request
IsStarted(r, rec) ==
    /\ rec.level = "INFO"
    /\ rec.message = <<"[analyze-recording] Sending request for consult: ">>
                     \o (IF request[r].consultId = None THEN <<"None">> ELSE request[r].consultId[1])

IsSucceeded(r, rec) ==
    /\ rec.level = "INFO"
    /\ rec.message = <<"[analyze-recording] Analysis generated successfully for consult: ">>
                     \o (IF request[r].consultId = None THEN <<"None">> ELSE request[r].consultId[1])

C19_Events ==
    \A r \in Reqs :
        /\ pc[r] = "build" => logs[r] = <<>>
        /\ pc[r] # "build" =>
                /\ logs[r] # <<>> /\ IsStarted(r, logs[r][1])
                /\ \A i \in DOMAIN logs[r] : IsStarted(r, logs[r][i]) => i = 1
        /\ pc[r] = "invoke" => (Len(logs[r]) = 1 /\ calls[r] = <<>> /\ IsNone(api_result[r]))
        /\ \A i \in DOMAIN logs[r] :
                IsSucceeded(r, logs[r][i]) =>
                    /\ Phase(r) = "Succeeded"
                    /\ i = Len(logs[r])
                    /\ Len(replies[r]) = Len(calls[r])
        /\ Phase(r) = "Succeeded" => IsSucceeded(r, logs[r][Len(logs[r])])
        /\ Phase(r) = "Failed" => \A i \in DOMAIN logs[r] : ~IsSucceeded(r, logs[r][i])

\* the first record is written while nothing was posted and the key was
\* not looked at; no post follows the succeeded event
C19_Order ==
    \A r \in Reqs :
        /\ (logs[r] = <<>> /\ logs[r]' # <<>>) => (calls[r]' = <<>> /\ pc[r]' = "invoke")
        /\ (logs[r] # <<>> /\ IsSucceeded(r, logs[r][Len(logs[r])])) => calls[r]' = calls[r]

(* C19  Log event ordering: the started event, with the consult id, is the *)
(* first record of a handler, written once, before the key check and       *)
(* before any post; the succeeded event is written exactly by the handlers *)
(* that end Succeeded, as their last record, after every post was          *)
(* answered; a handler that ends Failed never writes it.                   *)
C19_LogEventOrder == [](C19_Events) /\ [][C19_Order]_vars

(* C20  Succeeded implies non-empty text: a handler that ends Succeeded    *)
(* returns a non-empty string, and a 200 whose first part holds the empty  *)
(* string ends with HTTPException 500 "No analysis generated".             *)
C20_NonEmptyAnalysis ==
    \A r \in Reqs :
        /\ Phase(r) = "Succeeded" =>
                /\ result[r][1].value.t = "str"
                /\ Len(result[r][1].value.v) > 0
        /\ \A body \in SuccessBodies :
                (Answered(r, body) /\ HasFirstPart(body)
                    /\ "text" \in DOMAIN FirstPart(body).v
                    /\ FirstPart(body).v["text"] = JStr(<<>>)) =>
                        /\ Phase(r) = "Failed"
                        /\ result[r][1].type = "HTTPException"
                        /\ result[r][1].status_code = 500
                        /\ result[r][1].msg = <<"No analysis generated">>

C20_Witness ==
    \E r, q \in Reqs :
        /\ Answered(r, "{\"candidates\": [{\"content\": {\"parts\": [{\"text\": \"\"}]}}]}")
        /\ result[r][1].msg = <<"No analysis generated">>
        /\ Phase(q) = "Succeeded" /\ result[q][1].value = JStr(<<"A">>)

====
